---- MODULE Spec2Model ----
(***************************************************************************)
(* Model of src/src/App.js: the step sequencer of the one-oscillator       *)
(* synthesizer.  The component's state hooks and refs are the variables;   *)
(* every handler (playSequence, stopSequence, the step timer callback,     *)
(* the control-surface edits) is one atomic action, because the event loop *)
(* runs one handler at a time.                                             *)
(*                                                                         *)
(* Units.  The knobs move in steps of 0.01, so volume, the four ADSR       *)
(* fields and audio-clock offsets are integers counting hundredths         *)
(* (0.5 is 50, 0.01 s is 1).  Gain automation values are products          *)
(* volume * sustain and count ten-thousandths (0.35 is 3500).  Pitch       *)
(* frequencies count hundredths of a hertz.  Cutoff is in Hz, bpm in       *)
(* beats per minute and the step interval in milliseconds.                 *)
(***************************************************************************)
EXTENDS Integers, Sequences, FiniteSets, TLC

\* ------------------------------------------------------------------ bounds

\* How many control-surface edits one behaviour may hold.
MaxEdits == 1

\* How far the audio clock runs, in hundredths of a second.
MaxAudioTime == 1

\* ------------------------------------------------------- program constants

NOTE_LIST ==
  << "C3", "C#3", "D3", "D#3", "E3", "F3", "F#3", "G3", "G#3", "A3", "A#3", "B3",
     "C4", "C#4", "D4", "D#4", "E4", "F4", "F#4", "G4", "G#4", "A4", "A#4", "B4",
     "C5", "C#5", "D5", "D#5", "E5", "F5", "F#5", "G5" >>

NOTE_FREQS ==
  ( "C3" :> 13081 @@ "C#3" :> 13859 @@ "D3" :> 14683 @@ "D#3" :> 15556 @@
    "E3" :> 16481 @@ "F3" :> 17461 @@ "F#3" :> 18500 @@ "G3" :> 19600 @@
    "G#3" :> 20765 @@ "A3" :> 22000 @@ "A#3" :> 23308 @@ "B3" :> 24694 @@
    "C4" :> 26163 @@ "C#4" :> 27718 @@ "D4" :> 29366 @@ "D#4" :> 31113 @@
    "E4" :> 32963 @@ "F4" :> 34923 @@ "F#4" :> 36999 @@ "G4" :> 39200 @@
    "G#4" :> 41530 @@ "A4" :> 44000 @@ "A#4" :> 46616 @@ "B4" :> 49388 @@
    "C5" :> 52325 @@ "C#5" :> 55437 @@ "D5" :> 58733 @@ "D#5" :> 62225 @@
    "E5" :> 65925 @@ "F5" :> 69846 @@ "F#5" :> 73999 @@ "G5" :> 78399 )

\* NOTE_FREQS is an object literal, so a lookup by a key it does not own falls
\* through to Object.prototype: these names resolve to functions (to the
\* prototype object for "__proto__"), not to undefined.
ObjectPrototypeKeys ==
  { "constructor", "toString", "toLocaleString", "valueOf",
    "hasOwnProperty", "isPrototypeOf", "propertyIsEnumerable", "__proto__",
    "__defineGetter__", "__defineSetter__",
    "__lookupGetter__", "__lookupSetter__" }

DEFAULT_SEQ ==
  LET s == << "E3", "E3", "G3", "A3",
              "B3", "B3", "A3", "G3",
              "E3", "E3", "G3", "A3",
              "B3", "A3", "G3", "E3" >>
  IN  [i \in 0..(Len(s) - 1) |-> s[i + 1]]

\* The null of a ref (useRef(null)); node and timer handles are positive.
Null == 0

\* ------------------------------------------------------------- the inputs

\* Values the control surface hands to the handlers.  Those outside a knob's
\* range reach the handler when it is called directly.
WaveformInputs == { "sine", "sawtooth", "triangle" }
FilterInputs == { 20, 1000 }
VolumeInputs == { 0, 100 }
BpmInputs == { 20, 70, 500 }
AdsrFields == { "a", "d", "s", "r" }
AdsrInputs == { -10, 50, 300 }
StepSlots == { 0, 1 }
StepInputs == { "", "C4", "H9", "constructor" }
ReverbInputs == { 0, 100 }

\* ------------------------------------------------------------------ state

VARIABLES
  waveform,        \* useState("sine")
  steps,           \* useState(DEFAULT_SEQ)
  bpm,             \* useState(120)
  volume,          \* useState(0.5), in hundredths
  filter,          \* useState(20000)
  adsr,            \* useState({a, d, s, r}), in hundredths
  playing,         \* useState(false)
  playingRef,      \* useRef(false)
  currentStep,     \* useState(-1)
  stepTimerRef,    \* useRef(null): handle of the timer set last
  timers,          \* the event loop's pending setTimeout callbacks
  lastOscRef,      \* useRef(null)
  lastGainRef,     \* useRef(null)
  lastFilterRef,   \* useRef(null)
  voices,          \* the audio graph's transient nodes, by Voice
  reverb,          \* useState(0.01), in hundredths
  graph,           \* dryGainRef, wetGainRef, convolverRef: the persistent nodes
  mounted,         \* the component is mounted
  audioTime,       \* audioCtxRef.current.currentTime, in hundredths
  edits,           \* number of edits made, for MaxEdits
  lastOp           \* the handler that ran last and what its tick did

params == << waveform, steps, bpm, volume, filter, adsr >>
transport == << playing, playingRef, currentStep >>
clock == << stepTimerRef, timers >>
refs == << lastOscRef, lastGainRef, lastFilterRef >>
engine == << transport, clock, refs, voices >>
mix == << reverb, graph >>
host == << mounted, audioTime >>
vars == << params, engine, mix, host, edits, lastOp >>

\* --------------------------------------------------------------- helpers

Max(a, b) == IF a >= b THEN a ELSE b
Min(a, b) == IF a <= b THEN a ELSE b

clamp(val, min, max) == Max(min, Min(max, val))

\* What one render of App closes over: nextStep and the timer callback it
\* creates read these, not the hooks' later values.
Render ==
  [ waveform |-> waveform, steps |-> steps, bpm |-> bpm,
    volume |-> volume, filter |-> filter, adsr |-> adsr ]

\* NOTE_FREQS[note] as JavaScript evaluates it.
Lookup(note) ==
  IF note \in DOMAIN NOTE_FREQS THEN [kind |-> "number", v |-> NOTE_FREQS[note]]
  ELSE IF note = "__proto__" THEN [kind |-> "object", v |-> 0]
  ELSE IF note \in ObjectPrototypeKeys THEN [kind |-> "function", v |-> 0]
  ELSE [kind |-> "undefined", v |-> 0]

Truthy(x) ==
  \/ x.kind = "function"
  \/ x.kind = "object"
  \/ x.kind = "number" /\ x.v # 0

\* note && NOTE_FREQS[note]
NoteTest(note) == note # "" /\ Truthy(Lookup(note))

RECURSIVE GCD(_, _)
GCD(m, n) == IF n = 0 THEN m ELSE GCD(n, m % n)

\* A delay in milliseconds as the fraction num/den in lowest terms.
Ms(num, den) ==
  LET g == GCD(num, den) IN [num |-> num \div g, den |-> den \div g]

\* (60 * 1000) / bpm / 4, a quotient that need not be whole (bpm 70 gives
\* 1500/7 ms); bpm is kept within 40..300 by the knob's handler.
StepMs(b) == Ms(60 * 1000, b * 4)

\* An envelope whose sustain level is not scaled by the volume.
Envelope_SustainUnscaled(now, vol, e) ==
  << << now, 0 >>,
     << now + e.a, vol * 100 >>,
     << now + e.a + e.d, 100 * e.s >>,
     << now + e.a + e.d + e.r, 0 >> >>

\* The four automation events put on gain.gain, as <<time, value>>:
\* setValueAtTime(0, now) and the three linearRampToValueAtTime calls.
Envelope(now, vol, e) ==
  << << now, 0 >>,
     << now + e.a, vol * 100 >>,
     << now + e.a + e.d, vol * e.s >>,
     << now + e.a + e.d + e.r, 0 >> >>

\* param.value = v puts an event on the automation timeline at the current
\* audio time, as setValueAtTime(v, now) does: after the events up to now.
SetValueAtTime(events, v, now) ==
  SelectSeq(events, LAMBDA ev : ev[1] <= now)
    \o << << now, v >> >>
    \o SelectSeq(events, LAMBDA ev : ev[1] > now)

\* gain.gain.cancelScheduledValues(now): events at or after now are dropped.
CancelScheduledValues(events, now) ==
  SelectSeq(events, LAMBDA ev : ev[1] < now)

\* ----------------------------------------------------------------- voices

\* A Voice is live while any of its three nodes is still wired or running.
Live(v) == v.oscOn \/ v.gainOn \/ v.filterOn

Collect(vs) ==
  LET keep == { i \in DOMAIN vs : Live(vs[i]) } IN [i \in keep |-> vs[i]]

StopOsc(vs, ref) ==
  IF ref # Null /\ ref \in DOMAIN vs THEN [vs EXCEPT ![ref].oscOn = FALSE] ELSE vs

DisconnectGain(vs, ref) ==
  IF ref # Null /\ ref \in DOMAIN vs THEN [vs EXCEPT ![ref].gainOn = FALSE] ELSE vs

DisconnectFilter(vs, ref) ==
  IF ref # Null /\ ref \in DOMAIN vs THEN [vs EXCEPT ![ref].filterOn = FALSE] ELSE vs

\* nextStep's teardown without the oscillator's stop and disconnect.
NextStepTeardown_KeepsOsc(vs, o, g, f) ==
  Collect(DisconnectFilter(DisconnectGain(vs, g), f))

\* nextStep, "Stop previous note".
NextStepTeardown(vs, o, g, f) ==
  Collect(DisconnectFilter(DisconnectGain(StopOsc(vs, o), g), f))

\* stopSequence, "Stop last oscillator" and the two disconnects after it.
StopTeardown(vs, o, g, f) ==
  Collect(DisconnectFilter(DisconnectGain(StopOsc(vs, o), g), f))

FreshVoice(vs) ==
  CHOOSE i \in 1..(Cardinality(DOMAIN vs) + 1) :
    /\ i \notin DOMAIN vs
    /\ \A j \in 1..(i - 1) : j \in DOMAIN vs

\* The nodes nextStep creates and wires for a note of the Pitch Table.  The
\* audio clock is read twice: set is its value when line 225 assigns
\* gain.value, now the ctx.currentTime of line 235.
BuildVoice(r, note, set, now) ==
  [ type |-> r.waveform,
    freq |-> NOTE_FREQS[note],
    filterType |-> "lowpass",
    cutoff |-> r.filter,
    gainValue |-> r.volume,
    env |-> CancelScheduledValues(
              SetValueAtTime(<< >>, r.volume * 100, set), now)
              \o Envelope(now, r.volume, r.adsr),
    armedBy |-> "nextStep",
    startedAt |-> now,
    stopAt |-> now + r.adsr.a + r.adsr.d + r.adsr.r,
    oscOn |-> TRUE, gainOn |-> TRUE, filterOn |-> TRUE ]

\* ------------------------------------------------------------ step clock

\* The audio clock is advanced by the rendering thread while a handler runs:
\* a later read of ctx.currentTime in one handler gives the same instant or
\* a later one.
LaterReads == { t \in audioTime..MaxAudioTime : t <= audioTime + 1 }

FreshTimer(pend) ==
  CHOOSE i \in 1..(Cardinality(pend) + 1) :
    /\ \A t \in pend : t.id # i
    /\ \A j \in 1..(i - 1) : \E t \in pend : t.id = j

\* A clearTimeout that cancels nothing.
ClearTimeout_Noop(pend, handle) == pend

\* clearTimeout(handle)
ClearTimeout(pend, handle) == { t \in pend : t.id # handle }

\* What a tick does with its slot: build a Voice, rest, or throw.  A slot
\* naming an Object.prototype key passes the test of line 215, and line 222
\* then assigns a function to osc.frequency.value, which raises TypeError.
TickOutcome(note) ==
  IF ~NoteTest(note) THEN "rest"
  ELSE IF Lookup(note).kind = "number" THEN "built"
  ELSE "threw"

\* A tick that arms no further tick.
Schedule_None(pend, idx, r) == pend

\* "Schedule next step": the timer keeps idx and the render it was made in.
Schedule(pend, idx, r) ==
  pend \cup { [ id |-> FreshTimer(pend), idx |-> idx,
                delay |-> StepMs(r.bpm), render |-> r ] }

\* A nextStep that publishes the index after the one it plays.
NextStep_OffByOne(idx, r, pend, op) ==
  LET torn == NextStepTeardown(voices, lastOscRef, lastGainRef, lastFilterRef)
      note == r.steps[idx]
      outcome == TickOutcome(note)
      v == FreshVoice(torn)
  IN  /\ currentStep' = idx + 1
      /\ lastOp' = [ op |-> op, ran |-> TRUE, idx |-> idx, note |-> note,
                     outcome |-> outcome ]
      /\ IF outcome = "built"
         THEN /\ \E now \in LaterReads :
                   /\ audioTime' = now
                   /\ voices' = (v :> BuildVoice(r, note, audioTime, now)) @@ torn
              /\ lastOscRef' = v
              /\ lastGainRef' = v
              /\ lastFilterRef' = v
         ELSE /\ voices' = torn
              /\ UNCHANGED audioTime
              /\ lastOscRef' = Null
              /\ lastGainRef' = Null
              /\ lastFilterRef' = Null
      /\ IF outcome = "threw"
         THEN /\ timers' = pend
              /\ UNCHANGED stepTimerRef
         ELSE /\ timers' = Schedule(pend, idx, r)
              /\ stepTimerRef' = FreshTimer(pend)

\* nextStep(idx) of render r, with pend the callbacks pending when it runs.
NextStep(idx, r, pend, op) ==
  LET torn == NextStepTeardown(voices, lastOscRef, lastGainRef, lastFilterRef)
      note == r.steps[idx]
      outcome == TickOutcome(note)
      v == FreshVoice(torn)
  IN  /\ currentStep' = idx
      /\ lastOp' = [ op |-> op, ran |-> TRUE, idx |-> idx, note |-> note,
                     outcome |-> outcome ]
      /\ IF outcome = "built"
         THEN /\ \E now \in LaterReads :
                   /\ audioTime' = now
                   /\ voices' = (v :> BuildVoice(r, note, audioTime, now)) @@ torn
              /\ lastOscRef' = v
              /\ lastGainRef' = v
              /\ lastFilterRef' = v
         ELSE /\ voices' = torn
              /\ UNCHANGED audioTime
              /\ lastOscRef' = Null
              /\ lastGainRef' = Null
              /\ lastFilterRef' = Null
      /\ IF outcome = "threw"
         THEN /\ timers' = pend
              /\ UNCHANGED stepTimerRef
         ELSE /\ timers' = Schedule(pend, idx, r)
              /\ stepTimerRef' = FreshTimer(pend)

NoTick(op) ==
  [ op |-> op, ran |-> FALSE, idx |-> -1, note |-> "", outcome |-> "none" ]

\* ---------------------------------------------------------------- actions

Init ==
  /\ waveform = "sine"
  /\ steps = DEFAULT_SEQ
  /\ bpm = 120
  /\ volume = 50
  /\ filter = 20000
  /\ adsr = [ a |-> 1, d |-> 10, s |-> 70, r |-> 20 ]
  /\ playing = FALSE
  /\ playingRef = FALSE
  /\ currentStep = -1
  /\ stepTimerRef = Null
  /\ timers = {}
  /\ lastOscRef = Null
  /\ lastGainRef = Null
  /\ lastFilterRef = Null
  /\ voices = << >>
  /\ reverb = 1
  /\ graph = [ dry |-> [ value |-> 100 - 1, to |-> "destination" ],
               wet |-> [ value |-> 1, to |-> "destination" ],
               convolver |-> [ to |-> "wetGain" ] ]
  /\ mounted = TRUE
  /\ audioTime = 0
  /\ edits = 0
  /\ lastOp = NoTick("init")

\* A handler runs on the mounted component.  One that reads the audio clock
\* at most once leaves audioTime, the instant of that read, as it is.
Handler ==
  /\ mounted
  /\ UNCHANGED mounted

\* playSequence without the early return of line 163.
playSequence_NoGuard ==
  /\ Handler
  /\ playing' = TRUE
  /\ playingRef' = TRUE
  /\ NextStep(0, Render, timers, "play")
  /\ UNCHANGED << params, mix, edits >>

playSequence ==
  /\ Handler
  /\ IF playingRef
     THEN /\ UNCHANGED << engine, audioTime >>
          /\ lastOp' = NoTick("play")
     ELSE /\ playing' = TRUE
          /\ playingRef' = TRUE
          /\ NextStep(0, Render, timers, "play")
  /\ UNCHANGED << params, mix, edits >>

\* A stopSequence that toggles the transport instead of clearing it.
stopSequence_Toggle ==
  /\ Handler
  /\ UNCHANGED audioTime
  /\ playing' = ~playing
  /\ playingRef' = ~playingRef
  /\ currentStep' = -1
  /\ timers' = IF stepTimerRef # Null THEN ClearTimeout(timers, stepTimerRef)
               ELSE timers
  /\ voices' = StopTeardown(voices, lastOscRef, lastGainRef, lastFilterRef)
  /\ lastOscRef' = Null
  /\ lastGainRef' = Null
  /\ lastFilterRef' = Null
  /\ lastOp' = NoTick("stop")
  /\ UNCHANGED << params, mix, stepTimerRef, edits >>

\* The body of stopSequence, run by the handler op.
StopBody(op) ==
  /\ playing' = FALSE
  /\ playingRef' = FALSE
  /\ currentStep' = -1
  /\ timers' = IF stepTimerRef # Null THEN ClearTimeout(timers, stepTimerRef)
               ELSE timers
  /\ voices' = StopTeardown(voices, lastOscRef, lastGainRef, lastFilterRef)
  /\ lastOscRef' = Null
  /\ lastGainRef' = Null
  /\ lastFilterRef' = Null
  /\ lastOp' = NoTick(op)
  /\ UNCHANGED << params, mix, stepTimerRef, edits >>

stopSequence ==
  /\ Handler
  /\ UNCHANGED audioTime
  /\ StopBody("stop")

\* The cleanup of the effect of lines 279-282: the component unmounts and
\* runs stopSequence; no handler runs after it.
unmount ==
  /\ mounted
  /\ mounted' = FALSE
  /\ UNCHANGED audioTime
  /\ StopBody("unmount")

\* A timer callback without the test of playingRef.
TimerFires_NoGuard ==
  \E t \in timers :
    /\ Handler
    /\ NextStep((t.idx + 1) % Cardinality(DOMAIN t.render.steps), t.render,
                timers \ {t}, "timer")
    /\ UNCHANGED << params, mix, playing, playingRef, edits >>

\* The callback handed to setTimeout in nextStep fires.
TimerFires ==
  \E t \in timers :
    /\ Handler
    /\ IF playingRef
       THEN NextStep((t.idx + 1) % Cardinality(DOMAIN t.render.steps), t.render,
                     timers \ {t}, "timer")
       ELSE /\ timers' = timers \ {t}
            /\ lastOp' = NoTick("timer")
            /\ UNCHANGED << currentStep, stepTimerRef, refs, voices, audioTime >>
    /\ UNCHANGED << params, mix, playing, playingRef, edits >>

\* The audio device's clock runs on between handlers too.
AdvanceAudioClock ==
  /\ audioTime < MaxAudioTime
  /\ audioTime' = audioTime + 1
  /\ lastOp' = NoTick("clock")
  /\ UNCHANGED << params, engine, mix, mounted, edits >>

\* ------------------------------------------------- control-surface edits

\* The effects of lines 152-160 run after a render in which their
\* dependency changed, and write the new value to the live Voice's node.
OscTypeEffect(vs, ref, old, new) ==
  IF new # old /\ ref # Null /\ ref \in DOMAIN vs
  THEN [vs EXCEPT ![ref].type = new] ELSE vs

FilterEffect(vs, ref, old, new) ==
  IF new # old /\ ref # Null /\ ref \in DOMAIN vs
  THEN [vs EXCEPT ![ref].cutoff = new] ELSE vs

\* lastGainRef.current.gain.value = volume: the assignment is an automation
\* event at the current audio time, beside the points already scheduled.
VolumeEffect(vs, ref, old, new) ==
  IF new # old /\ ref # Null /\ ref \in DOMAIN vs
  THEN [vs EXCEPT ![ref].gainValue = new,
                  ![ref].env = SetValueAtTime(@, new * 100, audioTime)]
  ELSE vs

\* A re-arm that reads the envelope parameters as edited.
Rearm_NewParams(vs, ref, vol, e) ==
  IF ref # Null /\ ref \in DOMAIN vs
  THEN [vs EXCEPT ![ref].env = CancelScheduledValues(@, audioTime)
                                 \o Envelope(audioTime, vol, adsr'),
                  ![ref].armedBy = "handleAdsrChange"]
  ELSE vs

\* A re-arm that also moves the oscillator's scheduled stop.
Rearm_MovesStop(vs, ref, vol, e) ==
  IF ref # Null /\ ref \in DOMAIN vs
  THEN [vs EXCEPT ![ref].env = CancelScheduledValues(@, audioTime)
                                 \o Envelope(audioTime, vol, e),
                  ![ref].armedBy = "handleAdsrChange",
                  ![ref].stopAt = audioTime + e.a + e.d + e.r]
  ELSE vs

\* handleAdsrChange's re-arm of the live gain node: it reads volume and adsr
\* of the render the handler belongs to, the values before this edit.
Rearm(vs, ref, vol, e) ==
  IF ref # Null /\ ref \in DOMAIN vs
  THEN [vs EXCEPT ![ref].env = CancelScheduledValues(@, audioTime)
                                 \o Envelope(audioTime, vol, e),
                  ![ref].armedBy = "handleAdsrChange"]
  ELSE vs

\* A reverb effect that forgets the dry gain.
ReverbEffect_WetOnly(g, old, new) ==
  IF new # old THEN [g EXCEPT !.wet.value = new] ELSE g

\* The effect of lines 142-145: the reverb knob sets the two mix gains.
ReverbEffect(g, old, new) ==
  IF new # old
  THEN [g EXCEPT !.dry.value = 100 - new, !.wet.value = new]
  ELSE g

Edited(op) ==
  /\ Handler
  /\ UNCHANGED audioTime
  /\ edits < MaxEdits
  /\ edits' = edits + 1
  /\ lastOp' = NoTick(op)

setWaveform ==
  \E w \in WaveformInputs :
    /\ Edited("setWaveform")
    /\ waveform' = w
    /\ voices' = OscTypeEffect(voices, lastOscRef, waveform, w)
    /\ UNCHANGED << steps, bpm, volume, filter, adsr, transport, clock, refs, mix >>

setFilter ==
  \E f \in FilterInputs :
    /\ Edited("setFilter")
    /\ filter' = f
    /\ voices' = FilterEffect(voices, lastFilterRef, filter, f)
    /\ UNCHANGED << waveform, steps, bpm, volume, adsr, transport, clock, refs, mix >>

setVolume ==
  \E v \in VolumeInputs :
    /\ Edited("setVolume")
    /\ volume' = v
    /\ voices' = VolumeEffect(voices, lastGainRef, volume, v)
    /\ UNCHANGED << waveform, steps, bpm, filter, adsr, transport, clock, refs, mix >>

\* The BPM knob's onChange.
setBpm ==
  \E v \in BpmInputs :
    /\ Edited("setBpm")
    /\ bpm' = clamp(v, 40, 300)
    /\ UNCHANGED << waveform, steps, volume, filter, adsr, engine, mix >>

handleStepChange ==
  \E idx \in StepSlots, val \in StepInputs :
    /\ Edited("handleStepChange")
    /\ steps' = [steps EXCEPT ![idx] = val]
    /\ UNCHANGED << waveform, bpm, volume, filter, adsr, engine, mix >>

handleAdsrChange ==
  \E field \in AdsrFields, val \in AdsrInputs :
    /\ Edited("handleAdsrChange")
    /\ adsr' = [adsr EXCEPT ![field] = clamp(val, 0, 200)]
    /\ voices' = Rearm(voices, lastGainRef, volume, adsr)
    /\ UNCHANGED << waveform, steps, bpm, volume, filter, transport, clock, refs, mix >>

\* The Reverb knob's onChange.
setReverb ==
  \E v \in ReverbInputs :
    /\ Edited("setReverb")
    /\ reverb' = v
    /\ graph' = ReverbEffect(graph, reverb, v)
    /\ UNCHANGED << params, engine >>

Next ==
  \/ playSequence
  \/ stopSequence
  \/ TimerFires
  \/ setWaveform
  \/ setFilter
  \/ setVolume
  \/ setBpm
  \/ handleStepChange
  \/ handleAdsrChange
  \/ setReverb
  \/ unmount

Spec == Init /\ [][Next]_vars

\* The handlers that reach the gain automation, with the audio clock running
\* between them.
NextClock ==
  \/ playSequence
  \/ stopSequence
  \/ TimerFires
  \/ setVolume
  \/ handleAdsrChange
  \/ AdvanceAudioClock

SpecClock == Init /\ [][NextClock]_vars

\* stop() racing the step timer: the callback is already past cancellation
\* when clearTimeout runs, so it stays pending and fires after isPlaying is
\* cleared.
stopRacesTimer ==
  /\ Handler
  /\ UNCHANGED audioTime
  /\ Cardinality(timers) = 1
  /\ playing' = FALSE
  /\ playingRef' = FALSE
  /\ currentStep' = -1
  /\ voices' = StopTeardown(voices, lastOscRef, lastGainRef, lastFilterRef)
  /\ lastOscRef' = Null
  /\ lastGainRef' = Null
  /\ lastFilterRef' = Null
  /\ lastOp' = NoTick("stop")
  /\ UNCHANGED << params, mix, clock, edits >>

NextRace ==
  \/ playSequence
  \/ stopSequence
  \/ TimerFires
  \/ stopRacesTimer

SpecRace == Init /\ [][NextRace]_vars

\* The event loop runs every pending timer callback in the end.
SpecLive == Spec /\ WF_vars(TimerFires)

\* ------------------------------------------------------------ properties

LiveVoices == { i \in DOMAIN voices : Live(voices[i]) }

\* The timer the last tick armed.
ArmedTimers == { t \in timers : t.id = stepTimerRef }

\* The Voice the last tick built.
BuiltVoice == voices[lastOscRef]

\* The points of an automation timeline at or after the instant t.
PointsFrom(events, t) == SelectSeq(events, LAMBDA ev : ev[1] >= t)

\* C1: at most one Voice is live in every reachable state, whatever the
\* interleaving of play, stop, ticks and edits.
C1_Monophonic == Cardinality(LiveVoices) <= 1

\* C1 witness: a timer tick has replaced the Voice of the step before it.
C1_Witness ==
  /\ lastOp.op = "timer"
  /\ lastOp.outcome = "built"
  /\ lastOp.idx >= 1
  /\ Cardinality(LiveVoices) = 1

\* C2: after every tick that returns, the tick it armed waits 60000/bpm/4 ms
\* of the bpm in effect when the tick fired.
C2_IntervalFromCurrentBpm ==
  (lastOp.ran /\ lastOp.outcome # "threw") =>
    \A t \in ArmedTimers : t.delay = StepMs(bpm)

\* C3: a tick at index i builds a Voice exactly when slot i of the Sequence,
\* as it stands when the tick fires, names a note of the Pitch Table.
C3_BuildsFromCurrentSequence ==
  lastOp.ran =>
    ((lastOp.outcome = "built") <=> (steps[lastOp.idx] \in DOMAIN NOTE_FREQS))

\* C4: a Voice built by a timer tick carries the waveform, cutoff, volume and
\* ADSR values as last edited.
C4_BuildsFromCurrentParams ==
  (lastOp.op = "timer" /\ lastOp.outcome = "built") =>
    /\ BuiltVoice.type = waveform
    /\ BuiltVoice.cutoff = filter
    /\ BuiltVoice.gainValue = volume
    /\ PointsFrom(BuiltVoice.env, BuiltVoice.startedAt)
         = Envelope(BuiltVoice.startedAt, volume, adsr)

\* C5: whenever isPlaying is false no tick is pending, no Voice is live and
\* currentStepIndex is -1.
C5_StoppedIsIdle ==
  (~playing \/ ~playingRef) =>
    /\ ~playing /\ ~playingRef
    /\ timers = {}
    /\ LiveVoices = {}
    /\ lastOscRef = Null /\ lastGainRef = Null /\ lastFilterRef = Null
    /\ currentStep = -1

\* C5 witness: stop() has returned on an engine that had been played.
C5_Witness ==
  /\ lastOp.op = "stop"
  /\ stepTimerRef # Null
  /\ ~playing

\* C6 as claimed: play() on a stopped engine runs no tick; it leaves
\* currentStepIndex at -1, builds no Voice and arms a tick with zero delay.
C6_PlayOnlyArms ==
  [][(~playingRef /\ lastOp'.op = "play") =>
       /\ playingRef' /\ playing'
       /\ ~lastOp'.ran
       /\ currentStep' = -1
       /\ voices' = voices
       /\ \E t \in timers' : t.delay = Ms(0, 1)]_vars

\* C6 amended: play() on a stopped engine runs the tick of index 0 itself: it
\* publishes currentStepIndex 0, builds the Voice of slot 0 exactly when the
\* tick's outcome is "built", and, unless the tick threw, leaves one pending
\* tick, for index 1, after the step interval; a stop() right after it leaves
\* the engine idle.
C6_PlayRunsFirstTick ==
  [][/\ (~playingRef /\ lastOp'.op = "play") =>
          /\ playingRef' /\ playing'
          /\ lastOp'.ran /\ lastOp'.idx = 0
          /\ currentStep' = 0
          /\ lastOp'.outcome = TickOutcome(steps[0])
          /\ (lastOp'.outcome = "built") <=> (LiveVoices' # {})
          /\ IF lastOp'.outcome = "threw" THEN timers' = {}
             ELSE /\ Cardinality(timers') = 1
                  /\ \A t \in timers' :
                       /\ (t.idx + 1) % Cardinality(DOMAIN steps) = 1
                       /\ t.delay = StepMs(bpm)
                       /\ t.id = stepTimerRef'
     /\ (lastOp.op = "play" /\ lastOp'.op = "stop") =>
          /\ ~playingRef' /\ ~playing'
          /\ currentStep' = -1
          /\ LiveVoices' = {}
          /\ timers' = {}]_vars

\* C6 witness: play() has just started playback and built the Voice of slot 0.
C6_Witness ==
  /\ lastOp.op = "play"
  /\ lastOp.ran
  /\ lastOp.outcome = "built"
  /\ currentStep = 0
  /\ timers # {}

\* C7: a tick that throws while building its Voice still leaves the next
\* tick scheduled while isPlaying is true.
C7_FailureConfinedToTick ==
  (lastOp.ran /\ lastOp.outcome = "threw" /\ playingRef) => ArmedTimers # {}

\* C8: a tick whose slot is empty or names no note of the Pitch Table does
\* not fail, builds no Voice, leaves no Voice live, publishes its index and
\* arms the tick that follows it.
C8_RestTick ==
  (lastOp.ran /\ lastOp.note \notin DOMAIN NOTE_FREQS) =>
    /\ lastOp.outcome = "rest"
    /\ LiveVoices = {}
    /\ currentStep = lastOp.idx
    /\ \E t \in ArmedTimers :
         (t.idx + 1) % Cardinality(DOMAIN steps) =
           (lastOp.idx + 1) % Cardinality(DOMAIN steps)

\* C9: play() while playback runs changes nothing and runs no tick.
C9_PlayWhilePlayingIsNoop ==
  [][(playingRef /\ lastOp'.op = "play") =>
       /\ UNCHANGED << params, engine >>
       /\ ~lastOp'.ran]_vars

\* C9 witness: play() has returned without a tick while a Voice is live and
\* a tick is pending.
C9_Witness ==
  /\ lastOp.op = "play"
  /\ ~lastOp.ran
  /\ playingRef
  /\ timers # {}
  /\ LiveVoices # {}

\* C10: stop() on a stopped engine changes neither transport, Voice nor
\* timer state, so a second stop() leaves what the first one left.
C10_StopWhileStoppedIsNoop ==
  [][/\ (~playingRef /\ lastOp'.op = "stop") => UNCHANGED << params, engine >>
     /\ (lastOp.op = "stop" /\ lastOp'.op = "stop") =>
          UNCHANGED << params, engine >>]_vars

\* C10 witness: stop() has returned on an engine that was never started.
C10_Witness ==
  /\ lastOp.op = "stop"
  /\ stepTimerRef = Null
  /\ ~playing
  /\ currentStep = -1

\* C11: the stored envelope parameters stay in their declared domains:
\* attack, decay and release in [0, 2] and sustain in [0, 1].
C11_AdsrInDomain ==
  /\ adsr.a \in 0..200
  /\ adsr.d \in 0..200
  /\ adsr.r \in 0..200
  /\ adsr.s \in 0..100

\* The instants of an automation timeline's points, in order.
Times(events) == [i \in DOMAIN events |-> events[i][1]]

\* C12: a waveform, cutoff or volume edit that changes the value while a
\* Voice is live writes the new value to that Voice's node and keeps the set
\* of Voices, the refs, the pending tick and the transport; the waveform and
\* cutoff edits leave the scheduled automation points as they were, and the
\* volume edit changes values of the automation only: its points are the
\* same in number and keep their instants.
C12_LiveEditRetunesVoice ==
  [][/\ (lastOp'.op = "setWaveform" /\ waveform' # waveform
           /\ lastOscRef # Null) =>
          /\ voices' = [voices EXCEPT ![lastOscRef].type = waveform']
          /\ UNCHANGED << transport, clock, refs, mix >>
     /\ (lastOp'.op = "setFilter" /\ filter' # filter
           /\ lastFilterRef # Null) =>
          /\ voices' = [voices EXCEPT ![lastFilterRef].cutoff = filter']
          /\ UNCHANGED << transport, clock, refs, mix >>
     /\ (lastOp'.op = "setVolume" /\ volume' # volume
           /\ lastGainRef # Null) =>
          /\ voices' = [voices EXCEPT
                          ![lastGainRef].gainValue = volume',
                          ![lastGainRef].env = voices'[lastGainRef].env]
          /\ Times(voices'[lastGainRef].env) = Times(voices[lastGainRef].env)
          /\ UNCHANGED << transport, clock, refs, mix >>]_vars

\* C15: at most one step-clock tick is pending in every reachable state.
C15_OnePendingTick == Cardinality(timers) <= 1

\* C15 witness: a tick is pending, armed by a timer tick of a running
\* sequence, and stepTimerRef holds its handle.
C15_Witness ==
  /\ lastOp.op = "timer"
  /\ lastOp.ran
  /\ Cardinality(timers) = 1
  /\ \A t \in timers : t.id = stepTimerRef

\* C13: the dry gain is 1 - reverbAmount and the wet gain reverbAmount, and a
\* reverb edit changes those two gain values only: no Voice, no connection,
\* no timer, no transport state.
C13_ReverbSetsMixOnly ==
  /\ [](graph.dry.value = 100 - reverb /\ graph.wet.value = reverb
          /\ graph.dry.value + graph.wet.value = 100)
  /\ [][lastOp'.op = "setReverb" =>
          /\ graph' = [graph EXCEPT !.dry.value = 100 - reverb',
                                    !.wet.value = reverb']
          /\ UNCHANGED << params, engine >>]_vars

\* C13 witness: the reverb knob has gone to 1 while a Voice is live.
C13_Witness ==
  /\ lastOp.op = "setReverb"
  /\ reverb = 100
  /\ graph.wet.value = 100
  /\ graph.dry.value = 0
  /\ LiveVoices # {}

\* C14: a timer callback that fires while isPlaying is false runs no tick,
\* creates no Voice, keeps currentStepIndex and schedules nothing.
C14_LateCallbackDoesNothing ==
  [][(~playingRef /\ lastOp'.op = "timer") =>
       /\ ~lastOp'.ran
       /\ timers' \subseteq timers
       /\ UNCHANGED << params, transport, stepTimerRef, refs, voices, mix >>]_vars

\* C14 witness: a callback has fired after stop() and run no tick.
C14_Witness ==
  /\ lastOp.op = "timer"
  /\ ~lastOp.ran
  /\ ~playingRef
  /\ currentStep = -1

\* C16: while playback stays active, every step index is visited again and
\* again.
C16_EveryStepRecurs ==
  <>[]playingRef => \A i \in DOMAIN DEFAULT_SEQ : []<>(currentStep = i)

\* C17: an ADSR edit with a Voice live drops the events at or after the
\* current audio instant and appends the four points anchored at that instant,
\* computed from the volume and the envelope parameters of before the edit;
\* with no live Voice it schedules nothing.
C17_RearmUsesPreviousAdsr ==
  [][lastOp'.op = "handleAdsrChange" =>
       IF lastGainRef # Null
       THEN LET old == voices[lastGainRef].env
                new == voices'[lastGainRef].env
                n == Len(new)
            IN  /\ n >= 4
                /\ \A k \in 1..(n - 4) : new[k][1] < audioTime
                /\ \A k \in 1..(n - 4) : \E j \in 1..Len(old) : old[j] = new[k]
                /\ new[n - 3] = << audioTime, 0 >>
                /\ new[n - 2] = << audioTime + adsr.a, volume * 100 >>
                /\ new[n - 1] = << audioTime + adsr.a + adsr.d, volume * adsr.s >>
                /\ new[n] = << audioTime + adsr.a + adsr.d + adsr.r, 0 >>
       ELSE voices' = voices]_vars

\* C17 witness: a Voice triggered earlier has been re-armed at a later
\* instant, and the points differ from those the edited parameters give.
C17_Witness ==
  /\ lastOp.op = "handleAdsrChange"
  /\ lastGainRef # Null
  /\ voices[lastGainRef].armedBy = "handleAdsrChange"
  /\ voices[lastGainRef].startedAt < audioTime
  /\ Len(voices[lastGainRef].env) > 4
  /\ SubSeq(voices[lastGainRef].env, Len(voices[lastGainRef].env) - 3,
            Len(voices[lastGainRef].env)) # Envelope(audioTime, volume, adsr)

\* C18: from the trigger instant t0 on, the gain automation of a Voice just
\* built holds the points (t0, 0), (t0 + a, volume), (t0 + a + d, volume * s),
\* (t0 + a + d + r, 0) of the volume and ADSR values the tick read, and no
\* other; a = 0.01, d = 0.1, s = 0.7, r = 0.2, volume = 0.5 give (t0, 0),
\* (t0 + 0.01, 0.5), (t0 + 0.11, 0.35), (t0 + 0.31, 0).  Before t0 the
\* timeline holds at most the value assignment of line 225.
C18_TriggerEnvelope ==
  (lastOp.ran /\ lastOp.outcome = "built") =>
    \A t \in ArmedTimers :
      LET e == t.render.adsr
          vol == t.render.volume
          t0 == BuiltVoice.startedAt
      IN  /\ t0 = audioTime
          /\ PointsFrom(BuiltVoice.env, t0) =
               << << t0, 0 >>,
                  << t0 + e.a, vol * 100 >>,
                  << t0 + e.a + e.d, vol * e.s >>,
                  << t0 + e.a + e.d + e.r, 0 >> >>
          /\ (e = [ a |-> 1, d |-> 10, s |-> 70, r |-> 20 ] /\ vol = 50) =>
               PointsFrom(BuiltVoice.env, t0) =
                 << << t0, 0 >>, << t0 + 1, 5000 >>,
                    << t0 + 11, 3500 >>, << t0 + 31, 0 >> >>
          /\ Len(BuiltVoice.env) <= 5
          /\ Len(BuiltVoice.env) = 5 =>
               /\ BuiltVoice.env[1][1] < t0
               /\ BuiltVoice.env[1][2] = vol * 100

\* C18 witness: a Voice has been triggered after time zero with a
\* zero-length attack, while the audio clock moved between the value
\* assignment of line 225 and the clock read of line 235.
C18_Witness ==
  /\ lastOp.ran
  /\ lastOp.outcome = "built"
  /\ BuiltVoice.startedAt > 0
  /\ Len(BuiltVoice.env) = 5
  /\ \E t \in ArmedTimers : t.render.adsr.a = 0 /\ t.render.volume > 0

\* C19: currentStepIndex stays in [-1, len(Sequence)); isPlaying turns true
\* only in play() and false only in stop() or the unmount's stop; no tick and
\* no edit changes it.
C19_TransportDiscipline ==
  /\ [](currentStep \in -1..(Cardinality(DOMAIN steps) - 1))
  /\ [][/\ (~playing /\ playing') => lastOp'.op = "play"
        /\ (~playingRef /\ playingRef') => lastOp'.op = "play"
        /\ (playing /\ ~playing') => lastOp'.op \in { "stop", "unmount" }
        /\ (playingRef /\ ~playingRef') => lastOp'.op \in { "stop", "unmount" }
        /\ lastOp'.op \notin { "play", "stop", "unmount" } =>
             UNCHANGED << playing, playingRef >>]_vars

\* C19 witness: the tick of the last step has run and playback goes on.
C19_Witness ==
  /\ lastOp.op = "timer"
  /\ lastOp.ran
  /\ currentStep = Cardinality(DOMAIN steps) - 1
  /\ playing /\ playingRef

\* C20: an ADSR edit with a Voice live changes that Voice's gain automation
\* only: the Voices, refs, pending tick and transport stay, and the
\* oscillator's stop stays at trigger time + attack + decay + release of the
\* parameters the trigger read.
C20_RearmTouchesGainOnly ==
  /\ [](lastOscRef # Null =>
          \A t \in ArmedTimers :
            voices[lastOscRef].stopAt =
              voices[lastOscRef].startedAt
                + t.render.adsr.a + t.render.adsr.d + t.render.adsr.r)
  /\ [][(lastOp'.op = "handleAdsrChange" /\ lastGainRef # Null) =>
          /\ voices' = [voices EXCEPT
                          ![lastGainRef].env = voices'[lastGainRef].env,
                          ![lastGainRef].armedBy = voices'[lastGainRef].armedBy]
          /\ voices'[lastGainRef].stopAt = voices[lastGainRef].stopAt
          /\ UNCHANGED << transport, clock, refs, mix >>]_vars

\* C20 witness: a Voice re-armed after its trigger keeps its stop time while
\* the edited parameters would give another.
C20_Witness ==
  /\ lastOp.op = "handleAdsrChange"
  /\ lastOscRef # Null
  /\ voices[lastOscRef].armedBy = "handleAdsrChange"
  /\ voices[lastOscRef].startedAt < audioTime
  /\ timers # {}
  /\ voices[lastOscRef].stopAt # audioTime + adsr.a + adsr.d + adsr.r

====
